---- MODULE Spec2Model ----
(***************************************************************************)
(* sssg: the static site generator of hauntsaninja.github.io.              *)
(* One run of main() (src/sssg/__init__.py) as a state machine: the posts  *)
(* directory and the prior destination are the inputs, each step of main() *)
(* is an action, and an unhandled exception ends the run in pc = "aborted".*)
(* Times are in whole hours; text is modelled by strings.                  *)
(***************************************************************************)
EXTENDS Integers, Sequences, FiniteSets, TLC

\* ------------------------------------------------------------------ bounds
\* At most MaxPosts files match posts/*.md; their dates fall on days 1..MaxDay
\* of January 2024.
MaxPosts == 2
MaxDay == 2

Stems == {"a", "b", "index"}
Days == 1..MaxDay

\* ------------------------------------------------------- lines of a post file
Delim == "---\n"
MetaLines == "title = ...\ndate = ...\n"
BodyLine == "Some *markdown*.\n"
FenceLine == "~~~nosuchlanguage\n"

\* What readlines() can return; only the first two are well-formed posts (the
\* second has a horizontal rule, a line equal to the delimiter, in its body).
WellFormed == <<Delim, MetaLines, Delim, BodyLine>>
WithRule == <<Delim, MetaLines, Delim, BodyLine, Delim, BodyLine>>
NoOpeningDelim == <<MetaLines, Delim, BodyLine>>
NoClosingDelim == <<Delim, MetaLines, BodyLine>>
EmptyFile == <<>>
EmptyMeta == <<Delim, Delim, BodyLine>>
UnknownFence == <<Delim, MetaLines, Delim, FenceLine>>
BadContents == {NoOpeningDelim, NoClosingDelim, EmptyFile, EmptyMeta, UnknownFence}

\* ------------------------------------------------------------------ datetimes
\* A datetime: day of January 2024, hour, and tzinfo (naive, or a UTC offset in hours).
DateTime(day, hour, aware, utcoffset) ==
    [day |-> day, hour |-> hour, aware |-> aware, utcoffset |-> utcoffset]

Pad2(n) == IF n < 10 THEN "0" \o ToString(n) ELSE ToString(n)

OffsetText(d) ==
    IF ~d.aware THEN ""
    ELSE IF d.utcoffset < 0 THEN "-" \o Pad2(0 - d.utcoffset) \o ":00"
    ELSE "+" \o Pad2(d.utcoffset) \o ":00"

\* datetime.isoformat(sep): date, separator, time and, when aware, the offset.
IsoFormat(d, sep) ==
    "2024-01-" \o Pad2(d.day) \o sep \o Pad2(d.hour) \o ":00:00" \o OffsetText(d)

\* datetime.replace(tzinfo=timezone.utc): same wall-clock fields, tzinfo set to UTC.
ReplaceTzUtc(d) == [d EXCEPT !.aware = TRUE, !.utcoffset = 0]

\* The key Python compares aware datetimes by: hours since the epoch, in UTC.
UtcHours(d) == d.day * 24 + d.hour - d.utcoffset

\* The datetimes the date strings of the posts denote: midnight without a zone
\* (a date-only string), and 20:00 at UTC-5.
SourceDateTimes ==
    {DateTime(day, 0, FALSE, 0) : day \in Days} \cup {DateTime(day, 20, TRUE, -5) : day \in Days}

\* The date string as written in the front matter.
DateText(d) ==
    IF ~d.aware /\ d.hour = 0 THEN "2024-01-" \o Pad2(d.day) ELSE IsoFormat(d, " ")

DateStrings == {DateText(d) : d \in SourceDateTimes}

\* dateutil.parser.parse: the datetime a date string denotes (naive when it has no zone).
DateutilParse(s) == CHOOSE d \in SourceDateTimes : DateText(d) = s

\* ------------------------------------------------------------------ input files
NoSummary == "<no summary key>"
Absent == [contents |-> <<>>, toml |-> [title |-> "", date |-> "", summary |-> NoSummary], present |-> FALSE]

Toml(stem, date, summary) == [title |-> "Title of " \o stem, date |-> date, summary |-> summary]

PostFile(contents, toml) == [contents |-> contents, toml |-> toml, present |-> TRUE]

\* The files posts/<stem>.md can be.
PostFiles(stem) ==
    {PostFile(WellFormed, Toml(stem, date, summary)) :
        date \in DateStrings, summary \in {NoSummary, "A summary."}}
    \cup {PostFile(c, Toml(stem, "2024-01-01", NoSummary)) : c \in BadContents \cup {WithRule}}

Range(s) == {s[k] : k \in 1..Len(s)}

\* The orders in which glob("*.md") can yield the files of a directory.
GlobOrders(dir) ==
    LET present == {s \in Stems : dir[s].present}
    IN  {o \in [1..Cardinality(present) -> present] : Range(o) = present}

\* ------------------------------------------------------------------ state
VARIABLES
    pc,          \* position in main()
    prior,       \* the destination before the run: absent, or a directory of files
    posts,       \* the posts directory: stem -> file (or Absent)
    globOrder,   \* the order glob yields the files in this run
    idx,         \* files the for loop has taken so far
    post,        \* the loop variable (a stem), or Unbound
    info,        \* the record of the post being processed
    post_infos,  \* the list of records
    dst_exists,  \* whether the destination directory exists
    dst,         \* the destination directory: file name -> content
    written,     \* the files this run has opened for writing, in order
    err          \* the exception that ended the run, or NoError

vars == <<pc, prior, posts, globOrder, idx, post, info, post_infos, dst_exists, dst, written, err>>

Unbound == "<unbound>"
NoError == "<none>"
NoInfo == [slug |-> Unbound]

Stale == [kind |-> "stale"]
EmptyDir == [n \in {} |-> Stale]
\* A destination left by an earlier run.
OldSite == [n \in {"index.html", "old-post.html", "robots.txt"} |-> Stale]
PriorStates == {[exists |-> FALSE, files |-> EmptyDir], [exists |-> TRUE, files |-> OldSite]}

Init ==
    /\ pc = "rmtree"
    /\ posts \in [Stems -> UNION {PostFiles(s) : s \in Stems} \cup {Absent}]
    /\ \A s \in Stems : posts[s].present => posts[s] \in PostFiles(s)
    /\ Cardinality({s \in Stems : posts[s].present}) <= MaxPosts
    /\ globOrder \in GlobOrders(posts)
    /\ idx = 0
    /\ post = Unbound
    /\ info = NoInfo
    /\ post_infos = <<>>
    /\ prior \in PriorStates
    /\ dst_exists = prior.exists
    /\ dst = prior.files
    /\ written = <<>>
    /\ err = NoError

Raise(e) ==
    /\ pc' = "aborted"
    /\ err' = e

\* shutil.rmtree(dst, ignore_errors=True): removes the tree; a failure is swallowed
\* and leaves the tree in place.
RmTree ==
    /\ pc = "rmtree"
    /\ \E removed \in BOOLEAN :
        IF dst_exists /\ removed
        THEN dst_exists' = FALSE /\ dst' = EmptyDir
        ELSE UNCHANGED <<dst_exists, dst>>
    /\ pc' = "mkdir"
    /\ UNCHANGED <<prior, posts, globOrder, idx, post, info, post_infos, written, err>>

\* Mutant: mkdir(parents=True, exist_ok=True).
MkDir_ExistOk ==
    /\ pc = "mkdir"
    /\ dst_exists' = TRUE
    /\ pc' = "loop"
    /\ UNCHANGED <<prior, posts, globOrder, idx, post, info, post_infos, dst, written, err>>

\* dst.mkdir(parents=True): FileExistsError when the directory is still there.
MkDir ==
    /\ pc = "mkdir"
    /\ IF dst_exists
       THEN Raise("FileExistsError") /\ UNCHANGED dst_exists
       ELSE dst_exists' = TRUE /\ pc' = "loop" /\ UNCHANGED err
    /\ UNCHANGED <<prior, posts, globOrder, idx, post, info, post_infos, dst, written>>

\* ------------------------------------------------------------------ the post loop
\* Mutant: the loop is left after its first iteration (a break, or the code after
\* the loop indented into it).
GlobExhausted_AfterFirst == idx >= 1 \/ idx = Len(globOrder)

\* The for loop has no file left to take.
GlobExhausted == idx = Len(globOrder)

\* list.index(x, start), with positions counted from 1; 0 stands for ValueError.
IndexFrom(s, x, start) ==
    LET hits == {k \in start..Len(s) : s[k] = x}
    IN  IF hits = {} THEN 0 ELSE CHOOSE k \in hits : \A j \in hits : k <= j

Missing == "<missing key>"
EmptyTable == [title |-> Missing, date |-> Missing, summary |-> NoSummary]

\* tomllib.loads of the lines between the delimiters: the file's table when the
\* metadata lines are among them, the empty table otherwise.
TomlLoads(file, lines) ==
    IF \E k \in 1..Len(lines) : lines[k] = MetaLines THEN file.toml ELSE EmptyTable

\* info["location"]
Location(stem) == stem \o ".html"

\* info["dt"]: the parsed date with its tzinfo replaced by UTC.
Dt(date) == ReplaceTzUtc(DateutilParse(date))

Info(stem, table) ==
    [title |-> table.title, date |-> table.date, summary |-> table.summary,
     slug |-> stem, location |-> Location(stem), dt |-> Dt(table.date)]

\* Mutant: a missing closing delimiter is taken to be the end of the file.
MdIndex_ToEnd(contents) ==
    IF IndexFrom(contents, Delim, 2) = 0 THEN Len(contents) ELSE IndexFrom(contents, Delim, 2)

\* The file's position once the closing delimiter is found (0 when there is none).
MdIndex(contents) == IndexFrom(contents, Delim, 2)

\* One iteration of the loop up to post_infos.append(info): read the file, check
\* the opening delimiter, find the closing one, load the metadata.
ParsePost ==
    /\ pc = "loop"
    /\ ~GlobExhausted
    /\ LET stem == globOrder[idx + 1]
           contents == posts[stem].contents
           md_index == MdIndex(contents)
           table == TomlLoads(posts[stem], SubSeq(contents, 2, md_index - 1))
       IN  /\ post' = stem
           /\ idx' = idx + 1
           /\ IF contents = <<>> THEN
                  Raise("IndexError") /\ UNCHANGED <<info, post_infos>>
              ELSE IF contents[1] # Delim THEN
                  Raise("AssertionError") /\ UNCHANGED <<info, post_infos>>
              ELSE IF md_index = 0 THEN
                  Raise("ValueError") /\ UNCHANGED <<info, post_infos>>
              ELSE IF table.date = Missing THEN
                  Raise("KeyError") /\ UNCHANGED <<info, post_infos>>
              ELSE
                  /\ info' = Info(stem, table)
                  /\ post_infos' = Append(post_infos, Info(stem, table))
                  /\ pc' = "render"
                  /\ UNCHANGED err
    /\ UNCHANGED <<prior, posts, globOrder, dst_exists, dst, written>>

\* open(dst / name, "w") and write: the file is created or replaced.
WriteFile(name, content) ==
    /\ dst' = [n \in DOMAIN dst \cup {name} |-> IF n = name THEN content ELSE dst[n]]
    /\ written' = Append(written, [name |-> name, kind |-> content.kind])

\* The lines handed to mistletoe: title heading, date line, then the body.
MdContents(i, contents) ==
    <<"# " \o i.title \o "\n\n", "*" \o i.date \o "*\n">>
        \o SubSeq(contents, MdIndex(contents) + 1, Len(contents))

\* get_lexer_by_name raises for a fence whose language has no lexer.
RenderRaises(md_contents) == \E k \in 1..Len(md_contents) : md_contents[k] = FenceLine

PostPage(i, md_contents) ==
    [kind |-> "post", title |-> i.title, article |-> md_contents]

\* The rest of the iteration: render the Markdown and write <location>.
WritePost ==
    /\ pc = "render"
    /\ LET md_contents == MdContents(info, posts[post].contents)
       IN  IF RenderRaises(md_contents)
           THEN Raise("ClassNotFound") /\ UNCHANGED <<dst, written>>
           ELSE /\ WriteFile(info.location, PostPage(info, md_contents))
                /\ pc' = "loop"
                /\ UNCHANGED err
    /\ UNCHANGED <<prior, posts, globOrder, idx, post, info, post_infos, dst_exists>>

\* Mutant: del post never raises (as if the statement were absent).
DelRaises_Never == FALSE

\* del post raises UnboundLocalError when the loop never bound the variable.
DelRaises == post = Unbound

DelPost ==
    /\ pc = "loop"
    /\ GlobExhausted
    /\ IF DelRaises
       THEN Raise("UnboundLocalError") /\ UNCHANGED post
       ELSE post' = Unbound /\ pc' = "sort" /\ UNCHANGED err
    /\ UNCHANGED <<prior, posts, globOrder, idx, info, post_infos, dst_exists, dst, written>>

\* ------------------------------------------------------------------ the index
\* x placed after the records of r with a greater key and before the others:
\* r is sorted, so records with equal keys keep the order they arrived in.
InsertReverse(x, r) ==
    LET n == Cardinality({k \in 1..Len(r) : UtcHours(r[k].dt) > UtcHours(x.dt)})
    IN  SubSeq(r, 1, n) \o <<x>> \o SubSeq(r, n + 1, Len(r))

\* Mutant: the sort without reverse=True (ascending, stable).
InsertForward(x, r) ==
    LET n == Cardinality({k \in 1..Len(r) : UtcHours(r[k].dt) < UtcHours(x.dt)})
    IN  SubSeq(r, 1, n) \o <<x>> \o SubSeq(r, n + 1, Len(r))

RECURSIVE SortForward(_)
SortForward(s) ==
    IF s = <<>> THEN <<>> ELSE InsertForward(Head(s), SortForward(Tail(s)))

RECURSIVE SortReverse(_)
\* list.sort(key=dt, reverse=True): descending and stable.
SortReverse(s) ==
    IF s = <<>> THEN <<>> ELSE InsertReverse(Head(s), SortReverse(Tail(s)))

SortPosts ==
    /\ pc = "sort"
    /\ post_infos' = SortReverse(post_infos)
    /\ pc' = "index"
    /\ UNCHANGED <<prior, posts, globOrder, idx, post, info, dst_exists, dst, written, err>>

BaseUrl == "https://hauntsaninja.github.io/"

\* The list of posts appended to the home page's Markdown.
HomePage(infos) ==
    [kind |-> "home",
     links |-> [k \in 1..Len(infos) |-> [text |-> infos[k].title, href |-> infos[k].location]]]

WriteIndex ==
    /\ pc = "index"
    /\ WriteFile("index.html", HomePage(post_infos))
    /\ pc' = "feed"
    /\ UNCHANGED <<prior, posts, globOrder, idx, post, info, post_infos, dst_exists, err>>

\* Mutant: min in place of max.
MinDt(infos) ==
    CHOOSE d \in {infos[k].dt : k \in 1..Len(infos)} :
        \A j \in 1..Len(infos) : UtcHours(d) <= UtcHours(infos[j].dt)

\* max(info["dt"] for info in infos), for a non-empty list.
MaxDt(infos) ==
    CHOOSE d \in {infos[k].dt : k \in 1..Len(infos)} :
        \A j \in 1..Len(infos) : UtcHours(infos[j].dt) <= UtcHours(d)

\* Mutant: the entry links to the slug, not to the location.
FeedEntry_SlugLink(i) ==
    [id |-> "tag:hauntsaninja.github.io,2024:" \o i.slug,
     title |-> i.title,
     updated |-> IsoFormat(i.dt, "T"),
     link |-> BaseUrl \o i.slug,
     summary |-> i.summary]

FeedEntry(i) ==
    [id |-> "tag:hauntsaninja.github.io,2024:" \o i.slug,
     title |-> i.title,
     updated |-> IsoFormat(i.dt, "T"),
     link |-> BaseUrl \o i.location,
     summary |-> i.summary]

Feed(infos) ==
    [kind |-> "feed",
     updated |-> IsoFormat(MaxDt(infos), "T"),
     entries |-> [k \in 1..Len(infos) |-> FeedEntry(infos[k])]]

\* max() of an empty sequence raises ValueError before anything is written.
WriteFeed ==
    /\ pc = "feed"
    /\ IF post_infos = <<>>
       THEN Raise("ValueError") /\ UNCHANGED <<dst, written>>
       ELSE /\ WriteFile("feed.xml", Feed(post_infos))
            /\ pc' = "sitemap"
            /\ UNCHANGED err
    /\ UNCHANGED <<prior, posts, globOrder, idx, post, info, post_infos, dst_exists>>

\* info["dt"].isoformat(): the separator defaults to "T".
LastMod(i) == IsoFormat(i.dt, "T")

Sitemap(infos) ==
    [kind |-> "sitemap",
     urls |-> [k \in 1..Len(infos) |->
                  [loc |-> BaseUrl \o infos[k].location, lastmod |-> LastMod(infos[k])]]]

WriteSitemap ==
    /\ pc = "sitemap"
    /\ WriteFile("sitemap.xml", Sitemap(post_infos))
    /\ pc' = "robots"
    /\ UNCHANGED <<prior, posts, globOrder, idx, post, info, post_infos, dst_exists, err>>

Robots ==
    [kind |-> "robots",
     text |-> "User-agent: *\nAllow: /\nSitemap: https://hauntsaninja.github.io/sitemap.xml"]

WriteRobots ==
    /\ pc = "robots"
    /\ WriteFile("robots.txt", Robots)
    /\ pc' = "done"
    /\ UNCHANGED <<prior, posts, globOrder, idx, post, info, post_infos, dst_exists, err>>

Next ==
    \/ RmTree
    \/ MkDir
    \/ ParsePost
    \/ WritePost
    \/ DelPost
    \/ SortPosts
    \/ WriteIndex
    \/ WriteFeed
    \/ WriteSitemap
    \/ WriteRobots

Spec == Init /\ [][Next]_vars

\* ------------------------------------------------------------------ properties
Present == {s \in Stems : posts[s].present}

Wrote(kind) == \E k \in 1..Len(written) : written[k].kind = kind

\* The date and time a post's date string parses to, read as UTC, in hours.
ParsedDateHours(s) ==
    LET d == DateutilParse(posts[s].toml.date) IN d.day * 24 + d.hour

\* The instant a post's date string denotes, in hours: its own offset applied
\* when it carries one, UTC assumed otherwise.
InstantHours(s) ==
    LET d == DateutilParse(posts[s].toml.date)
    IN  IF d.aware THEN d.day * 24 + d.hour - d.utcoffset ELSE d.day * 24 + d.hour

\* C1: index.html, feed.xml and sitemap.xml are written only after every post of
\* the posts directory has been parsed and its <stem>.html page written.
PostsBeforeIndexArtifacts ==
    \A k \in 1..Len(written) :
        written[k].kind \in {"home", "feed", "sitemap"} =>
            \A s \in Present :
                /\ \E j \in 1..(k - 1) : written[j] = [name |-> s \o ".html", kind |-> "post"]
                /\ \E j \in 1..Len(post_infos) : post_infos[j].slug = s

IndexArtifactAfterTwoPosts ==
    /\ Cardinality(Present) = 2
    /\ Wrote("sitemap")

IndexFor(o) == SortReverse([k \in 1..Len(o) |-> Info(o[k], posts[o[k]].toml)])

\* C3: the order in which glob yields the files does not change the sorted index,
\* nor index.html, feed.xml and sitemap.xml, equal timestamps included.
GlobOrderIrrelevant ==
    pc \in {"index", "feed", "sitemap", "robots", "done"} =>
        \A o \in GlobOrders(posts) :
            /\ IndexFor(o) = post_infos
            /\ pc = "done" =>
                /\ dst["index.html"] = HomePage(IndexFor(o))
                /\ dst["feed.xml"] = Feed(IndexFor(o))
                /\ dst["sitemap.xml"] = Sitemap(IndexFor(o))

\* The hours an updated value (UTC, ISO 8601 with "T") denotes.
UpdatedHours(text) ==
    CHOOSE h \in 0..((MaxDay + 1) * 24) :
        text = IsoFormat(DateTime(h \div 24, h % 24, TRUE, 0), "T")

\* C4: the feed's updated value is the maximum of its entries' updated values.
FeedUpdatedIsMaxOfEntries ==
    Wrote("feed") =>
        LET feed == dst["feed.xml"]
        IN  /\ \E k \in 1..Len(feed.entries) : feed.entries[k].updated = feed.updated
            /\ \A k \in 1..Len(feed.entries) :
                   UpdatedHours(feed.entries[k].updated) <= UpdatedHours(feed.updated)

FeedWithDifferentUpdated ==
    /\ Wrote("feed")
    /\ \E j, k \in 1..Len(dst["feed.xml"].entries) :
           dst["feed.xml"].entries[j].updated # dst["feed.xml"].entries[k].updated

\* C5: after a completed build every post page is named <stem>.html, and every
\* link of the home page, the feed and the sitemap names a file of the
\* destination, one link per post.
PagesNamedByStemAndLinksResolve ==
    pc = "done" =>
        LET links == dst["index.html"].links
            entries == dst["feed.xml"].entries
            urls == dst["sitemap.xml"].urls
            Pages == {s \o ".html" : s \in Present}
        IN  /\ \A n \in DOMAIN dst : dst[n].kind = "post" => n \in Pages
            /\ \A s \in Present : (s \o ".html") \in DOMAIN dst
            /\ Len(links) = Cardinality(Present)
            /\ Len(entries) = Cardinality(Present)
            /\ Len(urls) = Cardinality(Present)
            /\ {links[k].href : k \in 1..Len(links)} = Pages
            /\ {entries[k].link : k \in 1..Len(entries)} = {BaseUrl \o n : n \in Pages}
            /\ {urls[k].loc : k \in 1..Len(urls)} = {BaseUrl \o n : n \in Pages}
            /\ \A k \in 1..Len(links) : links[k].href \in DOMAIN dst
            /\ \A k \in 1..Len(entries) : \E n \in DOMAIN dst : entries[k].link = BaseUrl \o n
            /\ \A k \in 1..Len(urls) : \E n \in DOMAIN dst : urls[k].loc = BaseUrl \o n

CompletedBuildOfTwoPosts ==
    /\ pc = "done"
    /\ Cardinality(Present) = 2
    /\ \E s \in Present : dst[s \o ".html"].kind = "post"

\* The first line is not the delimiter line, or no second delimiter line closes
\* the metadata block.
Malformed(contents) ==
    \/ contents = <<>>
    \/ contents[1] # Delim
    \/ ~ \E k \in 2..Len(contents) : contents[k] = Delim

\* C6: a malformed post aborts the run at that post: no later post is taken or
\* recorded, the only files ever written are the pages of the posts before it,
\* and index.html, feed.xml, sitemap.xml and robots.txt are never written.
MalformedPostAbortsRun ==
    \A k \in 1..Len(globOrder) :
        Malformed(posts[globOrder[k]].contents) =>
            /\ idx <= k
            /\ idx = k => pc = "aborted" /\ err \in {"IndexError", "AssertionError", "ValueError"}
            /\ pc # "done"
            /\ \A j \in 1..Len(post_infos) :
                   \E m \in 1..(k - 1) : post_infos[j].slug = globOrder[m]
            /\ \A w \in 1..Len(written) :
                   /\ written[w].kind = "post"
                   /\ \E m \in 1..(k - 1) : written[w].name = globOrder[m] \o ".html"

AbortedAtMalformedSecondPost ==
    /\ pc = "aborted"
    /\ idx = 2
    /\ Malformed(posts[globOrder[2]].contents)
    /\ Len(written) = 1

\* date.isoformat(): YYYY-MM-DD.
DateOnlyIso(d) == "2024-01-" \o Pad2(d.day)

\* C7: a post's sitemap lastmod is the date-only ISO form of its date, and so
\* differs from the full timestamp the feed gives as the post's updated value.
LastmodIsDateOnly ==
    Wrote("sitemap") =>
        LET urls == dst["sitemap.xml"].urls
            entries == dst["feed.xml"].entries
        IN  \A k \in 1..Len(urls) :
                /\ \E s \in Present :
                       /\ urls[k].loc = BaseUrl \o s \o ".html"
                       /\ urls[k].lastmod = DateOnlyIso(DateutilParse(posts[s].toml.date))
                /\ urls[k].lastmod # entries[k].updated

\* C8: a post's timestamp is the instant its date string denotes (its own zone
\* offset kept, UTC assumed only without one), and the index is ordered by
\* those instants.
TimestampIsTrueInstant ==
    /\ \A k \in 1..Len(post_infos) :
           UtcHours(post_infos[k].dt) = InstantHours(post_infos[k].slug)
    /\ pc \in {"index", "feed", "sitemap", "robots", "done"} =>
           \A j, k \in 1..Len(post_infos) :
               j < k => InstantHours(post_infos[j].slug) >= InstantHours(post_infos[k].slug)

\* C9: whatever the destination held before, a completed build leaves exactly
\* one <stem>.html per post plus index.html, feed.xml, sitemap.xml and
\* robots.txt, nothing of the prior state; an absent destination is no error.
DestinationHoldsExactlyTheBuild ==
    /\ pc = "done" =>
           /\ dst_exists
           /\ DOMAIN dst = {s \o ".html" : s \in Present}
                               \cup {"index.html", "feed.xml", "sitemap.xml", "robots.txt"}
           /\ \A n \in DOMAIN dst : dst[n].kind # "stale"
    /\ ~prior.exists => err # "FileExistsError"
    /\ ~prior.exists /\ pc \notin {"rmtree", "mkdir"} => dst_exists

CompletedBuildOverOldSite ==
    /\ pc = "done"
    /\ prior.exists
    /\ prior.files # EmptyDir
    /\ Present # {}

\* C10 as stated: with no post files the run aborts while computing the feed's
\* updated value, after the destination was cleared and index.html written.
EmptyPostsAbortAtFeedUpdated ==
    (globOrder = <<>> /\ pc = "aborted" /\ err # "FileExistsError") =>
        /\ err = "ValueError"
        /\ written = <<[name |-> "index.html", kind |-> "home"]>>

\* C10 amended: with no post files the run does not complete; once the
\* destination is cleared and recreated the run aborts at del post after the
\* loop (the loop variable was never bound), the destination is empty, and
\* index.html, feed.xml, sitemap.xml and robots.txt are never written.
EmptyPostsAbortAtDelPost ==
    globOrder = <<>> =>
        /\ pc \in {"rmtree", "mkdir", "loop", "aborted"}
        /\ written = <<>>
        /\ pc = "aborted" => err \in {"UnboundLocalError", "FileExistsError"}
        /\ (pc = "aborted" /\ err = "UnboundLocalError") => dst_exists /\ dst = EmptyDir

EmptyPostsAborted ==
    /\ globOrder = <<>>
    /\ pc = "aborted"
    /\ err = "UnboundLocalError"
    /\ prior.exists
====
